---- MODULE Spec2Model ----
(***************************************************************************)
(* user-credential-processor: the PBKDF2 and scrypt processors (hash and   *)
(* compare), the hex record they exchange, and the processor factory.      *)
(*                                                                         *)
(* A Buffer is a sequence of bytes (0..255).  A JavaScript string that     *)
(* holds a hex record is a sequence of one-character strings.  A "binary"  *)
(* (latin1) string is the sequence of its character codes.                 *)
(***************************************************************************)
EXTENDS Integers, Sequences, FiniteSets, TLC

VARIABLES this, call, db, codec, factory

vars == <<this, call, db, codec, factory>>

(***************************************************************************)
(* Bounds of the model.                                                    *)
(***************************************************************************)
\* longest salt and derived key the codec round trip is tried on
MaxCodecLen == 2
\* how many different byte strings the random source may return per size
NumSaltSamples == 2
\* longest selection mapping handed to the factory
MaxKeys == 2

Min(a, b) == IF a < b THEN a ELSE b

(***************************************************************************)
(* Buffer primitives of the runtime, as the processors use them.           *)
(***************************************************************************)
HexDigits == <<"0", "1", "2", "3", "4", "5", "6", "7",
               "8", "9", "a", "b", "c", "d", "e", "f">>

UpperHexDigits == <<"0", "1", "2", "3", "4", "5", "6", "7",
                    "8", "9", "A", "B", "C", "D", "E", "F">>

\* value of one hex character, -1 when it is not a hex digit
HexValue ==
    [c \in { HexDigits[i] : i \in 1..16 } \cup { UpperHexDigits[i] : i \in 1..16 } |->
        (CHOOSE i \in 1..16 : HexDigits[i] = c \/ UpperHexDigits[i] = c) - 1]

Unhex(c) == IF c \in DOMAIN HexValue THEN HexValue[c] ELSE -1

\* combined.toString("hex"): two lowercase digits per byte
ToHexString(buf) ==
    [i \in 1..(2 * Len(buf)) |->
        IF i % 2 = 1 THEN HexDigits[(buf[(i + 1) \div 2] \div 16) + 1]
        ELSE HexDigits[(buf[i \div 2] % 16) + 1]]

\* Buffer.from(stored, "hex"): decodes pair by pair and stops, without an
\* error, at the first pair that is not two hex digits; an odd last
\* character is dropped
BufferFromHex(str) ==
    LET pairs == Len(str) \div 2
        bad == { i \in 1..pairs : Unhex(str[2 * i - 1]) < 0 \/ Unhex(str[2 * i]) < 0 }
        n == IF bad = {} THEN pairs
             ELSE (CHOOSE i \in bad : \A j \in bad : i <= j) - 1
    IN  [i \in 1..n |-> Unhex(str[2 * i - 1]) * 16 + Unhex(str[2 * i])]

\* Buffer.alloc(n): n zero bytes
BufferAlloc(n) == [i \in 1..n |-> 0]

WriteUInt32LE(buf, value, offset) ==
    [i \in 1..Len(buf) |->
        IF i = offset + 1 THEN value % 256
        ELSE IF i = offset + 2 THEN (value \div 256) % 256
        ELSE IF i = offset + 3 THEN (value \div 65536) % 256
        ELSE IF i = offset + 4 THEN (value \div 16777216) % 256
        ELSE buf[i]]

\* buf.writeUInt32BE(value, offset): most significant byte first
WriteUInt32BE(buf, value, offset) ==
    [i \in 1..Len(buf) |->
        IF i = offset + 1 THEN (value \div 16777216) % 256
        ELSE IF i = offset + 2 THEN (value \div 65536) % 256
        ELSE IF i = offset + 3 THEN (value \div 256) % 256
        ELSE IF i = offset + 4 THEN value % 256
        ELSE buf[i]]

\* buf.readUInt32BE(offset) throws a RangeError when the four bytes are not
\* all inside the buffer
ReadUInt32BEThrows(buf, offset) == offset + 4 > Len(buf)

ReadUInt32BE(buf, offset) ==
    buf[offset + 1] * 16777216 + buf[offset + 2] * 65536
    + buf[offset + 3] * 256 + buf[offset + 4]

\* source.copy(target, targetStart)
BufferCopy(source, target, targetStart) ==
    [i \in 1..Len(target) |->
        IF i > targetStart /\ i <= targetStart + Len(source)
        THEN source[i - targetStart]
        ELSE target[i]]

\* buf.slice(start, end): both ends are clamped to the buffer
BufferSlice(buf, start, end) ==
    SubSeq(buf, Min(start, Len(buf)) + 1, Min(end, Len(buf)))

\* buf.toString("binary", start): one character per byte, with the byte's
\* value as its code; empty when start is at or past the end
ToBinaryString(buf, start) ==
    SubSeq(buf, Min(start, Len(buf)) + 1, Len(buf))

(***************************************************************************)
(* The record: what hash builds in the callback of the KDF, and what       *)
(* compare reads back.                                                     *)
(***************************************************************************)
EncodeShortAlloc(salt, cost, hash) ==
    LET combined0 == BufferAlloc(Len(hash) + Len(salt))
        combined1 == WriteUInt32BE(combined0, Len(salt), 0)
        combined2 == WriteUInt32BE(combined1, cost, 4)
        combined3 == BufferCopy(salt, combined2, 8)
        combined4 == BufferCopy(hash, combined3, Len(salt) + 8)
    IN  ToHexString(combined4)

Encode(salt, cost, hash) ==
    LET combined0 == BufferAlloc(Len(hash) + Len(salt) + 8)
        combined1 == WriteUInt32BE(combined0, Len(salt), 0)
        combined2 == WriteUInt32BE(combined1, cost, 4)
        combined3 == BufferCopy(salt, combined2, 8)
        combined4 == BufferCopy(hash, combined3, Len(salt) + 8)
    IN  ToHexString(combined4)

\* one of the two header reads throws
DecodeThrows(stored) ==
    LET buffer == BufferFromHex(stored)
    IN  ReadUInt32BEThrows(buffer, 0) \/ ReadUInt32BEThrows(buffer, 4)

CompareHashBytesClamped(length, saltBytes) ==
    IF length - saltBytes - 8 < 0 THEN 0 ELSE length - saltBytes - 8

\* let hashBytes = buffer.length - saltBytes - 8
CompareHashBytes(length, saltBytes) == length - saltBytes - 8

CompareIterationsConfigured(buffer) == 777777

\* let iterations = buffer.readUInt32BE(4)
CompareIterations(buffer) == ReadUInt32BE(buffer, 4)

\* the locals of compare before it calls the KDF (when no read throws)
Decode(stored) ==
    LET buffer == BufferFromHex(stored)
        saltBytes == ReadUInt32BE(buffer, 0)
    IN  [ length     |-> Len(buffer),
          saltBytes  |-> saltBytes,
          salt       |-> BufferSlice(buffer, 8, saltBytes + 8),
          hashBytes  |-> CompareHashBytes(Len(buffer), saltBytes),
          iterations |-> CompareIterations(buffer),
          hash       |-> ToBinaryString(buffer, saltBytes + 8) ]

(***************************************************************************)
(* Option objects.  A JavaScript object is a function from its own keys;   *)
(* a missing argument is NoOptions.                                        *)
(***************************************************************************)
NoOptions == [undefined |-> TRUE]

EmptyObject == [k \in {} |-> 0]

\* options && typeof options === "object"
IsObject(options) == "undefined" \notin DOMAIN options

\* Object.assign(target, source)
ObjectAssign(target, source) ==
    [k \in DOMAIN target \cup DOMAIN source |->
        IF k \in DOMAIN source THEN source[k] ELSE target[k]]

PBKDF2Defaults ==
    [hashBytes |-> 32, saltBytes |-> 16, digest |-> "whirlpool", iterations |-> 777777]

ScryptDefaults ==
    [keyLength |-> 64, saltBytes |-> 16, cost |-> 16384, blockSize |-> 8,
     parallelization |-> 1, maxmem |-> 33554432]

Defaults(alg) == IF alg = "pbkdf2" THEN PBKDF2Defaults ELSE ScryptDefaults

Algorithms == {"pbkdf2", "scrypt"}

\* the constructor of both processors: this.options
ConstructorOptions(alg, options) ==
    IF IsObject(options)
    THEN ObjectAssign(ObjectAssign(EmptyObject, Defaults(alg)), options)
    ELSE Defaults(alg)

\* the first statements of hash: the per-call options are laid over the
\* module defaults, not over this.options
TemporalOptions(thisOptions, alg, options) ==
    IF IsObject(options)
    THEN ObjectAssign(ObjectAssign(EmptyObject, Defaults(alg)), options)
    ELSE thisOptions

\* the option objects callers pass, at construction and per call
OptionSamples(alg) ==
    IF alg = "pbkdf2"
    THEN { NoOptions,
           [iterations |-> 1000],
           [hashBytes |-> 2, saltBytes |-> 1],
           [hashBytes |-> 0],
           [digest |-> "sha512"] }
    ELSE { NoOptions,
           [cost |-> 1024],
           [keyLength |-> 2, saltBytes |-> 1] }

Passwords == {"p1", "p2"}

(***************************************************************************)
(* The primitives of the crypto module.                                    *)
(***************************************************************************)
\* crypto.randomBytes(size, cb): the byte strings the callback may receive
RandomBytes(size) ==
    { [i \in 1..size |-> (89 * s + 17 * i) % 256] : s \in 1..NumSaltSamples }

RECURSIVE ByteSum(_)
ByteSum(buf) == IF buf = <<>> THEN 0 ELSE Head(buf) + ByteSum(Tail(buf))

PwCode(password) == IF password = "p1" THEN 0 ELSE 1

DigestCode(digest) == IF digest = "whirlpool" THEN 0 ELSE 1

\* The key crypto.pbkdf2 hands to its callback: a deterministic function of
\* all its arguments, in which a shorter key is a prefix of a longer one (as
\* in PBKDF2) and two passwords or two digests never give the same
\* non-empty key for the same salt and iteration count.
PBKDF2Key(password, salt, iterations, keylen, digest) ==
    LET seed == PwCode(password) + 2 * DigestCode(digest) + 4 * (iterations % 7)
                + 32 * ((ByteSum(salt) + Len(salt)) % 8)
    IN  [i \in 1..keylen |-> (seed + 31 * (i - 1)) % 256]

\* crypto.pbkdf2 validates its arguments before it starts and throws when
\* the salt is not a buffer or string or the key length is negative
PBKDF2Throws(saltDefined, keylen) == ~saltDefined \/ keylen < 0

\* The key crypto.scrypt hands to its callback.
ScryptKey(password, salt, keylen, cost, blockSize, parallelization) ==
    LET seed == PwCode(password) + 2 * (cost % 3) + 8 * (blockSize % 2)
                + 16 * (parallelization % 2)
                + 32 * ((ByteSum(salt) + Len(salt)) % 8)
    IN  [i \in 1..keylen |-> (seed + 31 * (i - 1)) % 256]

\* crypto.scrypt(password, salt, keylen[, options], callback) throws when
\* the argument in the callback position is not a function or the key
\* length is negative
ScryptThrows(callbackIsFunction, keylen) == ~callbackIsFunction \/ keylen < 0

(***************************************************************************)
(* State.                                                                  *)
(*   this    the processor instance: its class and this.options, with the  *)
(*           argument its constructor was given                            *)
(*   call    the hash or compare call in each slot: its arguments, its     *)
(*           locals, where it is suspended and how its promise settled     *)
(*   db      the record the caller persisted from the last resolved hash,  *)
(*           with the arguments that produced it                           *)
(*   codec   a (salt, cost, key) triple taken through the record and back  *)
(*   factory the last selection mapping given to the factory and what the  *)
(*           factory did with it                                           *)
(***************************************************************************)
Slots == 1..1

NoRecord ==
    [alg |-> "none", hex |-> <<>>, password |-> "", options |-> EmptyObject,
     salt |-> <<>>, key |-> <<>>]

IdleCall ==
    [op |-> "none", alg |-> "none", pc |-> "idle",
     password |-> "", options |-> NoOptions, thisOptions |-> EmptyObject,
     temporalOptions |-> EmptyObject,
     randomCalls |-> 0, saltDefined |-> FALSE, salt |-> <<>>,
     stored |-> <<>>, corruption |-> "none", origin |-> NoRecord,
     kdfInvoked |-> FALSE, randomError |-> FALSE, kdfError |-> FALSE,
     encoded |-> FALSE, compared |-> FALSE, uncaught |-> FALSE,
     outcome |-> "pending", error |-> "none",
     hashed |-> <<>>, match |-> FALSE]

NoDecoded ==
    [length |-> 0, saltBytes |-> 0, salt |-> <<>>, hashBytes |-> 0,
     iterations |-> 0, hash |-> <<>>]

NoCodec ==
    [pc |-> "none", salt |-> <<>>, cost |-> 0, key |-> <<>>, hex |-> <<>>,
     threw |-> FALSE, out |-> NoDecoded]

NoInstance == [alg |-> "none", arg |-> NoOptions, options |-> EmptyObject]

NoFactory == [mapping |-> <<>>, called |-> FALSE, returned |-> "none", threw |-> "none"]

Free(c) == c.pc \in {"idle", "done"}

(***************************************************************************)
(* The constructors.                                                       *)
(***************************************************************************)
Construct(alg, options) ==
    /\ \A s \in Slots : Free(call[s])
    /\ this' = [alg |-> alg, arg |-> options,
                options |-> ConstructorOptions(alg, options)]
    /\ call' = [s \in Slots |-> IdleCall]
    /\ UNCHANGED <<db, codec, factory>>

PBKDF2Constructor == \E options \in OptionSamples("pbkdf2") : Construct("pbkdf2", options)

ScryptConstructor == \E options \in OptionSamples("scrypt") : Construct("scrypt", options)

(***************************************************************************)
(* hash, up to the call of crypto.randomBytes.                             *)
(***************************************************************************)
HashStartMutatesOptions(s, alg, password, options) ==
    /\ Free(call[s])
    /\ this.alg = alg
    /\ LET temporalOptions ==
             IF IsObject(options) THEN ObjectAssign(this.options, options)
             ELSE this.options
       IN  /\ call' = [call EXCEPT ![s] =
                  [IdleCall EXCEPT !.op = "hash", !.alg = alg,
                                   !.pc = "awaitRandom",
                                   !.password = password, !.options = options,
                                   !.thisOptions = this.options,
                                   !.temporalOptions = temporalOptions,
                                   !.randomCalls = 1]]
           /\ this' = [this EXCEPT !.options = temporalOptions]
    /\ UNCHANGED <<db, codec, factory>>

HashStart(s, alg, password, options) ==
    /\ Free(call[s])
    /\ this.alg = alg
    /\ LET temporalOptions == TemporalOptions(this.options, alg, options)
       IN  call' = [call EXCEPT ![s] =
                [IdleCall EXCEPT !.op = "hash", !.alg = alg,
                                 !.pc = "awaitRandom",
                                 !.password = password, !.options = options,
                                 !.thisOptions = this.options,
                                 !.temporalOptions = temporalOptions,
                                 !.randomCalls = 1]]
    /\ UNCHANGED <<this, db, codec, factory>>

PBKDF2Hash(s) ==
    \E password \in Passwords, options \in OptionSamples("pbkdf2") :
        HashStart(s, "pbkdf2", password, options)

ScryptHash(s) ==
    \E password \in Passwords, options \in OptionSamples("scrypt") :
        HashStart(s, "scrypt", password, options)

(***************************************************************************)
(* PBKDF2Processor.hash: the callback of crypto.randomBytes and what runs  *)
(* after it until the call is suspended again or settled.                  *)
(***************************************************************************)
\* e is set: the inner promise and then, in the catch, the outer promise are
\* rejected with e; the catch does not return, so crypto.pbkdf2 is called
\* with salt undefined, throws, and the second catch rejects again (no
\* effect) before resolve(hashed) (no effect).
PBKDF2HashRandomFailed(c) ==
    [c EXCEPT !.pc = "done", !.randomError = TRUE,
              !.outcome = "rejected", !.error = "random",
              !.kdfInvoked = TRUE]

\* salt is set: crypto.pbkdf2 is called with it
PBKDF2HashRandomDone(c, salt) ==
    LET o == c.temporalOptions
    IN  IF PBKDF2Throws(TRUE, o.hashBytes)
        THEN [c EXCEPT !.pc = "done", !.saltDefined = TRUE, !.salt = salt,
                       !.kdfInvoked = TRUE,
                       !.outcome = "rejected", !.error = "thrown"]
        ELSE [c EXCEPT !.pc = "awaitKdf", !.saltDefined = TRUE, !.salt = salt,
                       !.kdfInvoked = TRUE]

PBKDF2HashOnRandom(s) ==
    /\ call[s].op = "hash" /\ call[s].alg = "pbkdf2" /\ call[s].pc = "awaitRandom"
    /\ \/ call' = [call EXCEPT ![s] = PBKDF2HashRandomFailed(call[s])]
       \/ \E salt \in RandomBytes(call[s].temporalOptions.saltBytes) :
            call' = [call EXCEPT ![s] = PBKDF2HashRandomDone(call[s], salt)]
    /\ UNCHANGED <<this, db, codec, factory>>

\* the callback of crypto.pbkdf2 with e set: reject(e), and then, with no
\* return, hash.length is read of an undefined hash, which throws inside
\* the callback, outside every promise
PBKDF2HashKdfFailed(c) ==
    [c EXCEPT !.pc = "done", !.kdfError = TRUE,
              !.outcome = "rejected", !.error = "kdf",
              !.uncaught = TRUE]

\* the callback of crypto.pbkdf2 with the key: the record is built and
\* resolved
PBKDF2HashKdfDone(c) ==
    LET o == c.temporalOptions
        hash == PBKDF2Key(c.password, c.salt, o.iterations, o.hashBytes, o.digest)
    IN  [c EXCEPT !.pc = "done", !.encoded = TRUE,
                  !.outcome = "resolved",
                  !.hashed = Encode(c.salt, o.iterations, hash)]

Persisted(c, key) ==
    [alg |-> c.alg, hex |-> c.hashed, password |-> c.password,
     options |-> c.temporalOptions, salt |-> c.salt, key |-> key]

PBKDF2HashOnKdf(s) ==
    /\ call[s].op = "hash" /\ call[s].alg = "pbkdf2" /\ call[s].pc = "awaitKdf"
    /\ \/ /\ call' = [call EXCEPT ![s] = PBKDF2HashKdfFailed(call[s])]
          /\ UNCHANGED db
       \/ LET c == PBKDF2HashKdfDone(call[s])
              o == c.temporalOptions
          IN  /\ call' = [call EXCEPT ![s] = c]
              /\ db' = Persisted(c, PBKDF2Key(c.password, c.salt, o.iterations,
                                              o.hashBytes, o.digest))
    /\ UNCHANGED <<this, codec, factory>>

(***************************************************************************)
(* ScryptProcessor.hash: the same two callbacks; both return after         *)
(* rejecting.                                                              *)
(***************************************************************************)
ScryptHashRandomFailed(c) ==
    [c EXCEPT !.pc = "done", !.randomError = TRUE,
              !.outcome = "rejected", !.error = "random"]

ScryptHashRandomDone(c, salt) ==
    LET o == c.temporalOptions
    IN  IF ScryptThrows(TRUE, o.keyLength)
        THEN [c EXCEPT !.pc = "done", !.saltDefined = TRUE, !.salt = salt,
                       !.kdfInvoked = TRUE,
                       !.outcome = "rejected", !.error = "thrown"]
        ELSE [c EXCEPT !.pc = "awaitKdf", !.saltDefined = TRUE, !.salt = salt,
                       !.kdfInvoked = TRUE]

ScryptHashOnRandom(s) ==
    /\ call[s].op = "hash" /\ call[s].alg = "scrypt" /\ call[s].pc = "awaitRandom"
    /\ \/ call' = [call EXCEPT ![s] = ScryptHashRandomFailed(call[s])]
       \/ \E salt \in RandomBytes(call[s].temporalOptions.saltBytes) :
            call' = [call EXCEPT ![s] = ScryptHashRandomDone(call[s], salt)]
    /\ UNCHANGED <<this, db, codec, factory>>

ScryptHashKdfFailed(c) ==
    [c EXCEPT !.pc = "done", !.kdfError = TRUE,
              !.outcome = "rejected", !.error = "kdf"]

ScryptHashKey(c) ==
    LET o == c.temporalOptions
    IN  ScryptKey(c.password, c.salt, o.keyLength, o.cost, o.blockSize,
                  o.parallelization)

ScryptHashKdfDone(c) ==
    [c EXCEPT !.pc = "done", !.encoded = TRUE,
              !.outcome = "resolved",
              !.hashed = Encode(c.salt, c.temporalOptions.keyLength, ScryptHashKey(c))]

ScryptHashOnKdf(s) ==
    /\ call[s].op = "hash" /\ call[s].alg = "scrypt" /\ call[s].pc = "awaitKdf"
    /\ \/ /\ call' = [call EXCEPT ![s] = ScryptHashKdfFailed(call[s])]
          /\ UNCHANGED db
       \/ LET c == ScryptHashKdfDone(call[s])
          IN  /\ call' = [call EXCEPT ![s] = c]
              /\ db' = Persisted(c, ScryptHashKey(c))
    /\ UNCHANGED <<this, codec, factory>>

(***************************************************************************)
(* The stored strings a caller hands to compare: the persisted record, as  *)
(* it is or damaged in storage.                                            *)
(***************************************************************************)
TruncateLengths(record) ==
    { n \in {0, 7, 8, 15, 16, 17, Len(record.hex) - 2, Len(record.hex) - 1} :
        n >= 0 /\ n < Len(record.hex) }

DamagePositions(record) ==
    { p \in {1, 8, 9, 16, 17, 17 + 2 * Len(record.salt), Len(record.hex)} :
        p >= 1 /\ p <= Len(record.hex) }

ReplaceChar(str, pos, ch) == [i \in 1..Len(str) |-> IF i = pos THEN ch ELSE str[i]]

\* kind "none": the record itself; "truncate": its first n characters;
\* "badchar": one character replaced by a letter that is no hex digit;
\* "tamper": one character replaced by another hex digit
Undamaged(record) == { [kind |-> "none", stored |-> record.hex] }

Damaged(record) ==
    { [kind |-> "truncate", stored |-> SubSeq(record.hex, 1, n)] :
             n \in TruncateLengths(record) }
    \cup { [kind |-> "badchar", stored |-> ReplaceChar(record.hex, p, "g")] :
             p \in DamagePositions(record) }
    \cup { [kind |-> "tamper", stored |-> ReplaceChar(record.hex, p, "7")] :
             p \in { q \in DamagePositions(record) : record.hex[q] # "7" } }

CompareCall(alg, incoming, input, record) ==
    [IdleCall EXCEPT !.op = "compare", !.alg = alg, !.password = incoming,
                     !.thisOptions = this.options,
                     !.stored = input.stored, !.corruption = input.kind,
                     !.origin = record]

(***************************************************************************)
(* PBKDF2Processor.compare.                                                *)
(***************************************************************************)
\* the executor: a throw in it rejects the promise
PBKDF2CompareExecutor(c) ==
    IF DecodeThrows(c.stored)
    THEN [c EXCEPT !.pc = "done", !.outcome = "rejected", !.error = "thrown"]
    ELSE LET d == Decode(c.stored)
         IN  IF PBKDF2Throws(TRUE, d.hashBytes)
             THEN [c EXCEPT !.pc = "done", !.kdfInvoked = TRUE,
                            !.outcome = "rejected", !.error = "thrown"]
             ELSE [c EXCEPT !.pc = "awaitKdf", !.kdfInvoked = TRUE]

PBKDF2CompareWith(s, inputs) ==
    /\ Free(call[s])
    /\ this.alg = "pbkdf2" /\ db.alg = "pbkdf2"
    /\ \E incoming \in Passwords, input \in inputs :
         call' = [call EXCEPT ![s] =
                    PBKDF2CompareExecutor(CompareCall("pbkdf2", incoming, input, db))]
    /\ UNCHANGED <<this, db, codec, factory>>

PBKDF2Compare(s) == PBKDF2CompareWith(s, Undamaged(db))

PBKDF2CompareDamaged(s) == PBKDF2CompareWith(s, Damaged(db))

\* verify.toString("binary") === hash
CompareResult(verify, hash) == ToBinaryString(verify, 0) = hash

\* the callback of crypto.pbkdf2 with e set: reject(e), and then, with no
\* return, verify.toString is called on an undefined verify, which throws
\* inside the callback
PBKDF2CompareKdfFailed(c) ==
    [c EXCEPT !.pc = "done", !.kdfError = TRUE,
              !.outcome = "rejected", !.error = "kdf",
              !.uncaught = TRUE]

PBKDF2CompareKdfDoneRejectsMismatch(c) ==
    LET d == Decode(c.stored)
        verify == PBKDF2Key(c.password, d.salt, d.iterations, d.hashBytes,
                            PBKDF2Defaults.digest)
    IN  IF CompareResult(verify, d.hash)
        THEN [c EXCEPT !.pc = "done", !.compared = TRUE,
                       !.outcome = "resolved", !.match = TRUE]
        ELSE [c EXCEPT !.pc = "done", !.compared = TRUE,
                       !.outcome = "rejected", !.error = "mismatch"]

\* the callback of crypto.pbkdf2 with the key
PBKDF2CompareKdfDone(c) ==
    LET d == Decode(c.stored)
        verify == PBKDF2Key(c.password, d.salt, d.iterations, d.hashBytes,
                            PBKDF2Defaults.digest)
    IN  [c EXCEPT !.pc = "done", !.compared = TRUE,
                  !.outcome = "resolved",
                  !.match = CompareResult(verify, d.hash)]

PBKDF2CompareOnKdf(s) ==
    /\ call[s].op = "compare" /\ call[s].alg = "pbkdf2" /\ call[s].pc = "awaitKdf"
    /\ \/ call' = [call EXCEPT ![s] = PBKDF2CompareKdfFailed(call[s])]
       \/ call' = [call EXCEPT ![s] = PBKDF2CompareKdfDone(call[s])]
    /\ UNCHANGED <<this, db, codec, factory>>

(***************************************************************************)
(* ScryptProcessor.compare.  It calls                                      *)
(*   crypto.scrypt(incoming, salt, iterations, hashBytes, digest, fn)      *)
(* so the key length is the second header word, the options are a number,  *)
(* and the argument in the callback position is defaults.digest, which the *)
(* scrypt defaults do not define; the function comes sixth and is ignored. *)
(***************************************************************************)
ScryptCompareCallbackIsFunction == FALSE /\ "digest" \in DOMAIN ScryptDefaults

ScryptCompareExecutor(c) ==
    IF DecodeThrows(c.stored)
    THEN [c EXCEPT !.pc = "done", !.outcome = "rejected", !.error = "thrown"]
    ELSE LET d == Decode(c.stored)
         IN  IF ScryptThrows(ScryptCompareCallbackIsFunction, d.iterations)
             THEN [c EXCEPT !.pc = "done", !.kdfInvoked = TRUE,
                            !.outcome = "rejected", !.error = "thrown"]
             ELSE [c EXCEPT !.pc = "awaitKdf", !.kdfInvoked = TRUE]

ScryptCompareWith(s, inputs) ==
    /\ Free(call[s])
    /\ this.alg = "scrypt" /\ db.alg = "scrypt"
    /\ \E incoming \in Passwords, input \in inputs :
         call' = [call EXCEPT ![s] =
                    ScryptCompareExecutor(CompareCall("scrypt", incoming, input, db))]
    /\ UNCHANGED <<this, db, codec, factory>>

ScryptCompare(s) == ScryptCompareWith(s, Undamaged(db))

ScryptCompareDamaged(s) == ScryptCompareWith(s, Damaged(db))

(***************************************************************************)
(* The processors' specification.                                          *)
(***************************************************************************)
Init ==
    /\ \E alg \in Algorithms : \E options \in OptionSamples(alg) :
         this = [alg |-> alg, arg |-> options,
                 options |-> ConstructorOptions(alg, options)]
    /\ call = [s \in Slots |-> IdleCall]
    /\ db = NoRecord
    /\ codec = NoCodec
    /\ factory = NoFactory

Next ==
    \/ PBKDF2Constructor
    \/ ScryptConstructor
    \/ \E s \in Slots :
        \/ PBKDF2Hash(s)
        \/ PBKDF2HashOnRandom(s)
        \/ PBKDF2HashOnKdf(s)
        \/ PBKDF2Compare(s)
        \/ PBKDF2CompareOnKdf(s)
        \/ ScryptHash(s)
        \/ ScryptHashOnRandom(s)
        \/ ScryptHashOnKdf(s)
        \/ ScryptCompare(s)

Spec == Init /\ [][Next]_vars

(***************************************************************************)
(* Damaged records: compare on every damaged form of every record a hash   *)
(* call of the instance can have resolved.                                 *)
(***************************************************************************)
HashResolved(alg, password, temporalOptions, salt) ==
    LET c == [IdleCall EXCEPT !.op = "hash", !.alg = alg, !.pc = "awaitKdf",
                              !.password = password,
                              !.temporalOptions = temporalOptions,
                              !.randomCalls = 1, !.saltDefined = TRUE,
                              !.salt = salt, !.kdfInvoked = TRUE]
    IN  IF alg = "pbkdf2"
        THEN LET o == temporalOptions
             IN  Persisted(PBKDF2HashKdfDone(c),
                           PBKDF2Key(password, salt, o.iterations, o.hashBytes, o.digest))
        ELSE Persisted(ScryptHashKdfDone(c), ScryptHashKey(c))

\* the records hash can resolve on the instance
HashRecords(instance) ==
    { HashResolved(instance.alg, password,
                   TemporalOptions(instance.options, instance.alg, options), salt) :
        <<password, options, salt>> \in
            { t \in Passwords \X OptionSamples(instance.alg)
                    \X UNION { RandomBytes(n) : n \in {1, 16} } :
                Len(t[3]) = TemporalOptions(instance.options, instance.alg,
                                            t[2]).saltBytes } }

InitDamaged ==
    /\ \E alg \in Algorithms :
         this = [alg |-> alg, arg |-> NoOptions,
                 options |-> ConstructorOptions(alg, NoOptions)]
    /\ call = [s \in Slots |-> IdleCall]
    /\ db \in HashRecords(this)
    /\ codec = NoCodec
    /\ factory = NoFactory

NextDamaged ==
    \E s \in Slots :
        \/ PBKDF2CompareDamaged(s)
        \/ PBKDF2CompareOnKdf(s)
        \/ ScryptCompareDamaged(s)

SpecDamaged == InitDamaged /\ [][NextDamaged]_vars

(***************************************************************************)
(* The record alone: a (salt, cost, key) triple through the encoding step  *)
(* of hash and the decoding step of compare.                               *)
(***************************************************************************)
ByteSamples == {0, 10, 127, 255}

CostSamples == {0, 1, 255, 256, 65535, 65536, 777777, 2147483647}

BufferSamples == UNION { [1..n -> ByteSamples] : n \in 0..MaxCodecLen }

InitCodec ==
    /\ this = NoInstance
    /\ call = [s \in Slots |-> IdleCall]
    /\ db = NoRecord
    /\ factory = NoFactory
    /\ \E salt \in BufferSamples, key \in BufferSamples, cost \in CostSamples :
         codec = [NoCodec EXCEPT !.pc = "input", !.salt = salt, !.cost = cost,
                                 !.key = key]

CodecEncode ==
    /\ codec.pc = "input"
    /\ codec' = [codec EXCEPT !.pc = "encoded",
                              !.hex = Encode(codec.salt, codec.cost, codec.key)]
    /\ UNCHANGED <<this, call, db, factory>>

CodecDecode ==
    /\ codec.pc = "encoded"
    /\ codec' = IF DecodeThrows(codec.hex)
                THEN [codec EXCEPT !.pc = "decoded", !.threw = TRUE]
                ELSE [codec EXCEPT !.pc = "decoded", !.out = Decode(codec.hex)]
    /\ UNCHANGED <<this, call, db, factory>>

NextCodec == CodecEncode \/ CodecDecode

SpecCodec == InitCodec /\ [][NextCodec]_vars

(***************************************************************************)
(* The factory.  The selection mapping is the sequence of its own keys, in *)
(* insertion order, each with its flag; a key is a sequence of characters. *)
(* Flags are written as JavaScript literals.                               *)
(***************************************************************************)
UpperLetters == <<"A", "B", "C", "D", "F", "G", "N", "O", "P", "R", "S", "T", "Y", "K", "M">>

LowerLetters == <<"a", "b", "c", "d", "f", "g", "n", "o", "p", "r", "s", "t", "y", "k", "m">>

\* String.prototype.toLowerCase
ToLowerCase(str) ==
    [i \in 1..Len(str) |->
        IF \E j \in 1..Len(UpperLetters) : UpperLetters[j] = str[i]
        THEN LowerLetters[CHOOSE j \in 1..Len(UpperLetters) : UpperLetters[j] = str[i]]
        ELSE str[i]]

FlagSamples == {"true", "false", "1", "0", "'on'", "''", "null"}

\* !!hashingAlgorithm[key]
Truthy(flag) == flag \in {"true", "1", "'on'"}

KeySamples ==
    { <<"p", "b", "k", "d", "f", "2">>, <<"P", "B", "K", "D", "F", "2">>,
      <<"S", "c", "r", "y", "p", "t">>, <<"b", "c", "r", "y", "p", "t">>,
      <<"A", "R", "G", "O", "N", "2">>, <<"m", "d", "5">> }

Mappings ==
    { m \in UNION { [1..n -> KeySamples \X FlagSamples] : n \in 0..MaxKeys } :
        \A i, j \in 1..Len(m) : i # j => m[i][1] # m[j][1] }

\* Object.keys(hashingAlgorithm).filter(key => !!hashingAlgorithm[key])
EnabledKeys(mapping) ==
    LET enabled(entry) == Truthy(entry[2])
        kept == SelectSeq(mapping, enabled)
    IN  [i \in 1..Len(kept) |-> kept[i][1]]

\* the switch on the lowercased name
FactorySwitch(normalizedAlgorithm) ==
    IF normalizedAlgorithm = <<"a", "r", "g", "o", "n", "2">>
    THEN [returned |-> "argon2", threw |-> "none"]
    ELSE IF normalizedAlgorithm = <<"b", "c", "r", "y", "p", "t">>
    THEN [returned |-> "bcrypt", threw |-> "none"]
    ELSE IF normalizedAlgorithm = <<"p", "b", "k", "d", "f", "2">>
    THEN [returned |-> "pbkdf2", threw |-> "none"]
    ELSE IF normalizedAlgorithm = <<"s", "c", "r", "y", "p", "t">>
    THEN [returned |-> "scrypt", threw |-> "none"]
    ELSE [returned |-> "none", threw |-> "UnknownAlgorithm"]

FactoryFirstEnabled(mapping) ==
    LET algorithm == EnabledKeys(mapping)
    IN  IF Len(algorithm) = 0
        THEN [returned |-> "none", threw |-> "TypeError"]
        ELSE FactorySwitch(ToLowerCase(algorithm[1]))

\* module.exports of index.js: the class it returns (named by its backend)
\* or the error it throws.  With no key enabled algorithm[0] is undefined and
\* the call of toLowerCase on it throws a TypeError.
Factory(mapping) ==
    LET algorithm == EnabledKeys(mapping)
    IN  IF Len(algorithm) > 1
        THEN [returned |-> "none", threw |-> "MoreThanOneAlgorithm"]
        ELSE IF Len(algorithm) = 0
        THEN [returned |-> "none", threw |-> "TypeError"]
        ELSE FactorySwitch(ToLowerCase(algorithm[1]))

FactoryCall ==
    /\ ~factory.called
    /\ \E mapping \in Mappings :
         LET r == Factory(mapping)
         IN  factory' = [mapping |-> mapping, called |-> TRUE,
                         returned |-> r.returned, threw |-> r.threw]
    /\ UNCHANGED <<this, call, db, codec>>

InitFactory ==
    /\ this = NoInstance
    /\ call = [s \in Slots |-> IdleCall]
    /\ db = NoRecord
    /\ codec = NoCodec
    /\ factory = NoFactory

NextFactory == FactoryCall

SpecFactory == InitFactory /\ [][NextFactory]_vars

(***************************************************************************)
(* Properties.                                                             *)
(***************************************************************************)

\* C1: decoding the hex string that the encoding step of hash builds from
\* (S, C, K) gives back saltLength = len(S), salt = S, costParameter = C and
\* derivedKey = K, with no read failing.
C1_RoundTrip ==
    codec.pc = "decoded" =>
        /\ ~codec.threw
        /\ codec.out.saltBytes = Len(codec.salt)
        /\ codec.out.salt = codec.salt
        /\ codec.out.iterations = codec.cost
        /\ codec.out.hash = codec.key
        /\ codec.out.hashBytes = Len(codec.key)

C1_Witness ==
    /\ codec.pc = "decoded"
    /\ Len(codec.salt) = 2 /\ Len(codec.key) = 2
    /\ codec.cost = 2147483647
    /\ codec.out.salt = codec.salt /\ codec.out.hash = codec.key

\* a PBKDF2 compare call given, undamaged, the record a hash call resolved
VerifiesRecord(c) ==
    c.op = "compare" /\ c.alg = "pbkdf2" /\ c.corruption = "none"

\* C2: compare(p, h), with h resolved by a PBKDF2 hash(p) under the default
\* digest and any hashBytes, saltBytes and iterations, resolves true on
\* whatever instance it runs: it is never rejected unless the KDF itself
\* reports an error, and when it resolves it resolves true.
C2_PBKDF2Verifies ==
    \A s \in Slots :
        LET c == call[s]
        IN  ( /\ VerifiesRecord(c)
              /\ c.password = c.origin.password
              /\ c.origin.options.digest = PBKDF2Defaults.digest )
            => /\ c.pc \in {"awaitKdf", "done"}
               /\ c.outcome = "rejected" => c.kdfError
               /\ c.outcome = "resolved" => c.match
               /\ c.pc = "done" => c.outcome # "pending"

C2_Witness ==
    \E s \in Slots :
        LET c == call[s]
        IN  /\ VerifiesRecord(c)
            /\ c.password = c.origin.password
            /\ c.origin.options.digest = PBKDF2Defaults.digest
            /\ c.origin.options.iterations # c.thisOptions.iterations
            /\ c.origin.options.hashBytes # c.thisOptions.hashBytes
            /\ c.pc = "done" /\ c.outcome = "resolved" /\ c.match

\* C3: compare(p, h), with h resolved by the scrypt processor's hash(p),
\* resolves true.
C3_ScryptVerifies ==
    \A s \in Slots :
        LET c == call[s]
        IN  ( /\ c.op = "compare" /\ c.alg = "scrypt" /\ c.corruption = "none"
              /\ c.password = c.origin.password
              /\ c.pc = "done" )
            => c.outcome = "resolved" /\ c.match

\* a settled PBKDF2 compare call whose password is not the one the record
\* was hashed from and whose derivation reported no error
MismatchSettled(c) ==
    /\ VerifiesRecord(c)
    /\ c.password # c.origin.password
    /\ c.pc = "done" /\ ~c.kdfError

\* C4 (as claimed): for p1 # p2 and any options hash accepts,
\* compare(p2, hash(p1)) resolves false; it is not rejected and never
\* resolves true.
C4_MismatchResolvesFalse ==
    \A s \in Slots :
        MismatchSettled(call[s])
            => call[s].outcome = "resolved" /\ ~call[s].match

\* C4 (amended): for p1 # p2 and any options hash accepts that give a
\* derived key of at least one byte, compare(p2, hash(p1)) resolves false;
\* it is not rejected and never resolves true.
C4_MismatchResolvesFalseNonEmptyKey ==
    \A s \in Slots :
        ( MismatchSettled(call[s]) /\ call[s].origin.options.hashBytes >= 1 )
            => call[s].outcome = "resolved" /\ ~call[s].match

C4_Witness ==
    \E s \in Slots :
        /\ MismatchSettled(call[s])
        /\ call[s].origin.options.hashBytes >= 1
        /\ call[s].origin.options.digest # PBKDF2Defaults.digest
        /\ call[s].outcome = "resolved" /\ ~call[s].match

HasNonHexCharacter(str) == \E i \in 1..Len(str) : Unhex(str[i]) < 0

\* C5: compare rejects, in its executor, whenever stored decodes to fewer
\* than 8 bytes or holds a character that is no hex digit, wherever that
\* character is; it never goes on to derive and compare.
C5_DamagedRecordRejected ==
    \A s \in Slots :
        LET c == call[s]
        IN  ( /\ c.op = "compare"
              /\ \/ Len(BufferFromHex(c.stored)) < 8
                 \/ HasNonHexCharacter(c.stored) )
            => /\ c.pc = "done" /\ c.outcome = "rejected"
               /\ ~c.compared

\* the header of stored can be read and declares a salt that does not fit
DeclaresTooLongSalt(stored) ==
    /\ ~DecodeThrows(stored)
    /\ 8 + ReadUInt32BE(BufferFromHex(stored), 0) > Len(BufferFromHex(stored))

\* C6: for every stored record whose header declares a saltLength with
\* 8 + saltLength greater than the decoded length, compare is rejected
\* before any derivation is awaited; it resolves neither true nor false.
C6_TruncatedRecordRejected ==
    \A s \in Slots :
        LET c == call[s]
        IN  ( c.op = "compare" /\ DeclaresTooLongSalt(c.stored) )
            => /\ c.pc = "done" /\ c.outcome = "rejected"
               /\ ~c.compared

C6_Witness ==
    \E s \in Slots :
        LET c == call[s]
        IN  /\ c.op = "compare" /\ c.alg = "pbkdf2"
            /\ c.corruption = "truncate"
            /\ DeclaresTooLongSalt(c.stored)
            /\ Len(BufferFromHex(c.stored)) > 8
            /\ c.pc = "done" /\ c.outcome = "rejected"

\* C7: every option a hash call uses has the per-call value if the per-call
\* options specify the key, otherwise the constructor's value if the
\* constructor's options specify it, otherwise the default.
C7_OptionPrecedence ==
    \A s \in Slots :
        LET c == call[s]
        IN  c.op = "hash" =>
              \A key \in DOMAIN Defaults(c.alg) :
                c.temporalOptions[key] =
                    IF IsObject(c.options) /\ key \in DOMAIN c.options
                    THEN c.options[key]
                    ELSE IF IsObject(this.arg) /\ key \in DOMAIN this.arg
                    THEN this.arg[key]
                    ELSE Defaults(c.alg)[key]

\* C8: when the random-byte generation of a hash call reports an error, the
\* promise is rejected with that error, the KDF is never invoked for the
\* call and no record is encoded or resolved.
C8_RandomFailureAborts ==
    \A s \in Slots :
        LET c == call[s]
        IN  ( c.op = "hash" /\ c.randomError )
            => /\ c.outcome = "rejected" /\ c.error = "random"
               /\ ~c.kdfInvoked
               /\ ~c.encoded /\ c.hashed = <<>>

\* C9: when the KDF reports an error through its callback, in hash or in
\* compare, the promise is rejected with that error, the callback does
\* nothing more (no encoding, no comparison) and no exception escapes it.
C9_DerivationFailureOnlyRejects ==
    \A s \in Slots :
        LET c == call[s]
        IN  c.kdfError
            => /\ c.outcome = "rejected" /\ c.error = "kdf"
               /\ ~c.encoded /\ ~c.compared
               /\ ~c.uncaught

Backends == {"pbkdf2", "scrypt", "bcrypt", "argon2"}

BackendName(x) ==
    IF x = "pbkdf2" THEN <<"p", "b", "k", "d", "f", "2">>
    ELSE IF x = "scrypt" THEN <<"s", "c", "r", "y", "p", "t">>
    ELSE IF x = "bcrypt" THEN <<"b", "c", "r", "y", "p", "t">>
    ELSE <<"a", "r", "g", "o", "n", "2">>

\* the backend the mapping selects: exactly one key has a truthy flag and
\* that key, lowercased, is the name of x
Selects(mapping, x) ==
    LET enabled == { i \in 1..Len(mapping) : Truthy(mapping[i][2]) }
    IN  /\ Cardinality(enabled) = 1
        /\ \A i \in enabled : ToLowerCase(mapping[i][1]) = BackendName(x)

ResolvedHash(c) == c.op = "hash" /\ c.pc = "done" /\ c.outcome = "resolved"

\* the output length and the cost parameter a hash call is configured with
OutputLength(c) ==
    IF c.alg = "pbkdf2" THEN c.temporalOptions.hashBytes
    ELSE c.temporalOptions.keyLength

CostParameter(c) ==
    IF c.alg = "pbkdf2" THEN c.temporalOptions.iterations
    ELSE c.temporalOptions.keyLength

DerivedKey(c) ==
    IF c.alg = "pbkdf2"
    THEN PBKDF2Key(c.password, c.salt, c.temporalOptions.iterations,
                   c.temporalOptions.hashBytes, c.temporalOptions.digest)
    ELSE ScryptHashKey(c)

\* C11: every string hash resolves, with effective salt size s and output
\* length k, is a lowercase hex string of exactly 2*(8+s+k) characters; its
\* first big-endian uint32 is s, its second is the configured iteration
\* count (PBKDF2) or keyLength (scrypt); the s salt bytes and then the k key
\* bytes follow, so saltLength + 8 + derivedKeyLength is the decoded length.
C11_RecordLayout ==
    \A s \in Slots :
        LET c == call[s]
            saltSize == c.temporalOptions.saltBytes
            k == OutputLength(c)
            buffer == BufferFromHex(c.hashed)
        IN  ResolvedHash(c) =>
              /\ Len(c.hashed) = 2 * (8 + saltSize + k)
              /\ \A i \in 1..Len(c.hashed) :
                    \E d \in 1..16 : HexDigits[d] = c.hashed[i]
              /\ Len(buffer) = 8 + saltSize + k
              /\ ReadUInt32BE(buffer, 0) = saltSize
              /\ ReadUInt32BE(buffer, 4) = CostParameter(c)
              /\ SubSeq(buffer, 9, 8 + saltSize) = c.salt
              /\ SubSeq(buffer, 9 + saltSize, Len(buffer)) = DerivedKey(c)
              /\ Len(DerivedKey(c)) = k

\* the scenario of the specification: PBKDF2 with iterations 1000,
\* hashBytes 32 and saltBytes 16 resolves 112 characters
C11_Witness ==
    \E s \in Slots :
        LET c == call[s]
        IN  /\ ResolvedHash(c) /\ c.alg = "pbkdf2"
            /\ c.temporalOptions.iterations = 1000
            /\ c.temporalOptions.hashBytes = 32
            /\ c.temporalOptions.saltBytes = 16
            /\ Len(c.hashed) = 112
            /\ ReadUInt32BE(BufferFromHex(c.hashed), 0) = 16

(***************************************************************************)
(* Concurrent calls on one instance: two calls in flight at once, their    *)
(* callbacks delivered in any order.                                       *)
(***************************************************************************)
ConcurrentSlots == 1..2

\* the per-call and constructor options of the concurrent callers
ConcurrentOptions(alg) ==
    IF alg = "pbkdf2"
    THEN { NoOptions, [hashBytes |-> 2, saltBytes |-> 1] }
    ELSE { NoOptions, [keyLength |-> 2, saltBytes |-> 1] }

\* each caller hashes a password of its own
CallerPassword(s) == IF s = 1 THEN "p1" ELSE "p2"

ConcurrentPBKDF2Hash(s) ==
    \E options \in ConcurrentOptions("pbkdf2") :
        HashStart(s, "pbkdf2", CallerPassword(s), options)

ConcurrentScryptHash(s) ==
    \E options \in ConcurrentOptions("scrypt") :
        HashStart(s, "scrypt", CallerPassword(s), options)

InitConcurrent ==
    /\ \E alg \in Algorithms : \E options \in ConcurrentOptions(alg) :
         this = [alg |-> alg, arg |-> options,
                 options |-> ConstructorOptions(alg, options)]
    /\ call = [s \in ConcurrentSlots |-> IdleCall]
    /\ db = NoRecord
    /\ codec = NoCodec
    /\ factory = NoFactory

NextConcurrent ==
    \E s \in ConcurrentSlots :
        \/ ConcurrentPBKDF2Hash(s)
        \/ PBKDF2HashOnRandom(s)
        \/ PBKDF2HashOnKdf(s)
        \/ PBKDF2Compare(s)
        \/ PBKDF2CompareOnKdf(s)
        \/ ConcurrentScryptHash(s)
        \/ ScryptHashOnRandom(s)
        \/ ScryptHashOnKdf(s)
        \/ ScryptCompare(s)

SpecConcurrent == InitConcurrent /\ [][NextConcurrent]_vars

\* the effective options of a call, computed from the options the instance
\* was constructed with and the options passed to that call alone
OwnOptions(c) ==
    TemporalOptions(ConstructorOptions(this.alg, this.arg), c.alg, c.options)

\* C12: in every interleaving of concurrent hash and compare calls on one
\* instance, with differing per-call options, each hash call requests random
\* bytes exactly once and before its derivation; the record it resolves
\* embeds the salt returned to that same call, that call's own cost word
\* (iterations for PBKDF2, keyLength for scrypt) and the key derived from
\* that call's own password, salt and options; every call works on its own
\* effective options, and the options of the instance stay what the
\* constructor made them.
C12_IndependentCalls ==
    /\ this.options = ConstructorOptions(this.alg, this.arg)
    /\ \A s \in ConcurrentSlots :
         LET c == call[s]
             buffer == BufferFromHex(c.hashed)
         IN  /\ c.op = "hash" =>
                  /\ c.randomCalls = 1
                  /\ c.pc = "awaitRandom" => ~c.kdfInvoked /\ ~c.saltDefined
                  /\ c.kdfInvoked => (c.saltDefined \/ c.randomError)
                  /\ c.password = CallerPassword(s)
                  /\ c.temporalOptions = OwnOptions(c)
             /\ c.op = "compare" => c.thisOptions = this.options
             /\ ResolvedHash(c) =>
                  /\ c.saltDefined
                  /\ Len(c.salt) = OwnOptions(c).saltBytes
                  /\ ~DecodeThrows(c.hashed)
                  /\ Decode(c.hashed).salt = c.salt
                  /\ ReadUInt32BE(buffer, 4) = CostParameter(c)
                  /\ SubSeq(buffer, 9 + Len(c.salt), Len(buffer)) = DerivedKey(c)

\* one call has resolved its record while another call, with other per-call
\* options and another salt, is still waiting for its derivation
C12_Witness ==
    /\ ResolvedHash(call[1])
    /\ IsObject(call[1].options)
    /\ db.hex = call[1].hashed
    /\ call[2].op = "hash" /\ call[2].pc = "awaitKdf"
    /\ call[2].options = NoOptions
    /\ call[2].saltDefined
    /\ call[2].salt # call[1].salt
    /\ call[2].temporalOptions # call[1].temporalOptions

====
